---- MODULE Spec2Model ----
(***************************************************************************)
(* Model of the Kotlin lexical analyser: the LexerService scan loop and    *)
(* the six automata it dispatches to.                                      *)
(*                                                                         *)
(* A character is a one-element string; an input is a sequence of          *)
(* characters.  Offsets are 0-based as in the source, so the character at  *)
(* offset p of input is input[p + 1].                                      *)
(***************************************************************************)
EXTENDS Integers, Sequences, FiniteSets, TLC

\* ------------------------------------------------------------------ bounds

\* Longest input of the general specification (every character class).
MaxLen == 3
\* Longest input of the comment specification (the shortest nested comment
\* whose delimiters share no character has 9 characters).
MaxLenComment == 9
\* Longest input of the number/operator specification.
MaxLenOperator == 4
\* Longest input of the string specification.
MaxLenString == 4
\* Longest input of the delimiter specification.
MaxLenDelimiter == 4
\* Longest input of the literal specification.
MaxLenLiteral == 4
\* Longest run of identifier characters of the identifier specification
\* (the limit of 15 is passed at 16).
MaxIdentifierRun == 17
\* Longest input of the line-counting specification.
MaxLenLines == 5
\* Longest input of the dot and colon specification.
MaxLenDot == 4
\* Longest input of the statistics specification.
MaxLenStatistics == 4
\* Longest input of the raw string specification.
MaxLenRaw == 8
\* Longest input, and number of analyze calls, of the reuse specification.
MaxLenReuse == 2
MaxRuns == 2

\* --------------------------------------------------------------- characters

\* What BaseAutomaton.peek returns past the end of the input ('\0').
NUL == "NUL"

Digits == {"0", "1", "2", "3", "4", "5", "6", "7", "8", "9"}

UpperLetters ==
  {"A", "B", "C", "D", "E", "F", "G", "H", "I", "J", "K", "L", "M",
   "N", "O", "P", "Q", "R", "S", "T", "U", "V", "W", "X", "Y", "Z"}

LowerLetters ==
  {"a", "b", "c", "d", "e", "f", "g", "h", "i", "j", "k", "l", "m",
   "n", "o", "p", "q", "r", "s", "t", "u", "v", "w", "x", "y", "z"}

isDigit(char) == char \in Digits

isLetter(char) == char \in UpperLetters \cup LowerLetters

isIdentifierStart(char) == isLetter(char) \/ char = "_"

isIdentifierPart(char) == isLetter(char) \/ isDigit(char) \/ char = "_"

isWhitespace(char) == char = " " \/ char = "\t" \/ char = "\r"

\* input.substring(from, to) for 0 <= from <= to <= Len(input).
Substring(input, from, to) == SubSeq(input, from + 1, to)

peek(input, pos, offset) ==
  IF pos + offset < Len(input) THEN input[pos + offset + 1] ELSE NUL

\* ------------------------------------------------------------------- tokens

\* A recognizer's null result.
NoToken == [type |-> "NO_TOKEN"]

\* The value of a token created without one (undefined).
NoValue == [undefined |-> TRUE]

createToken_LengthPlusOne(type, lexeme, line, column, position, value) ==
  [type |-> type, lexeme |-> lexeme, line |-> line, column |-> column,
   position |-> position, length |-> Len(lexeme) + 1, value |-> value]

createToken(type, lexeme, line, column, position, value) ==
  [type |-> type, lexeme |-> lexeme, line |-> line, column |-> column,
   position |-> position, length |-> Len(lexeme), value |-> value]

\* ---------------------------------------------------------- NumberAutomaton

DigitValue(char) ==
  CASE char = "0" -> 0 [] char = "1" -> 1 [] char = "2" -> 2 [] char = "3" -> 3
    [] char = "4" -> 4 [] char = "5" -> 5 [] char = "6" -> 6 [] char = "7" -> 7
    [] char = "8" -> 8 [] char = "9" -> 9

\* parseInt(lexeme, 10) of a run of digits.
RECURSIVE parseInt(_)
parseInt(lexeme) ==
  IF lexeme = <<>> THEN 0
  ELSE 10 * parseInt(SubSeq(lexeme, 1, Len(lexeme) - 1)) + DigitValue(lexeme[Len(lexeme)])

createIntegerToken(lexeme, line, column, position) ==
  createToken("INTEGER", lexeme, line, column, position, parseInt(lexeme))

\* parseFloat(lexeme) of digits '.' digits, kept exact: the whole part and the
\* digits of the fraction.
createDecimalToken(lexeme, line, column, position) ==
  LET dot == CHOOSE i \in 1..Len(lexeme) : lexeme[i] = "."
  IN createToken("DECIMAL", lexeme, line, column, position,
                 [whole |-> parseInt(SubSeq(lexeme, 1, dot - 1)),
                  fraction |-> SubSeq(lexeme, dot + 1, Len(lexeme))])

\* The INTEGER state's tests on a '.': it is not followed by a second '.'
\* (the range operator), and the character after it is a digit.
NumberDotGuard(input, pos) == peek(input, pos, 1) # "."

NumberDotAccepted_NoDigitCheck(input, pos) == TRUE

NumberDotAccepted(input, pos) == isDigit(peek(input, pos, 1))

RECURSIVE NumberLoop(_, _, _, _, _, _, _)
NumberLoop(input, startPos, line, column, state, pos, lexeme) ==
  IF pos < Len(input)
  THEN LET char == input[pos + 1] IN
       CASE state = "START" ->
              IF isDigit(char)
              THEN NumberLoop(input, startPos, line, column, "INTEGER", pos + 1,
                              Append(lexeme, char))
              ELSE NoToken
         [] state = "INTEGER" ->
              IF isDigit(char)
              THEN NumberLoop(input, startPos, line, column, "INTEGER", pos + 1,
                              Append(lexeme, char))
              ELSE IF char = "." /\ NumberDotGuard(input, pos)
              THEN IF NumberDotAccepted(input, pos)
                   THEN NumberLoop(input, startPos, line, column, "DOT", pos + 1,
                                   Append(lexeme, char))
                   ELSE createIntegerToken(lexeme, line, column, startPos)
              ELSE createIntegerToken(lexeme, line, column, startPos)
         [] state = "DOT" ->
              IF isDigit(char)
              THEN NumberLoop(input, startPos, line, column, "DECIMAL", pos + 1,
                              Append(lexeme, char))
              ELSE NumberLoop(input, startPos, line, column, "REJECT", pos, lexeme)
         [] state = "DECIMAL" ->
              IF isDigit(char)
              THEN NumberLoop(input, startPos, line, column, "DECIMAL", pos + 1,
                              Append(lexeme, char))
              ELSE createDecimalToken(lexeme, line, column, startPos)
         [] state = "REJECT" -> NoToken
  ELSE IF state = "INTEGER" THEN createIntegerToken(lexeme, line, column, startPos)
  ELSE IF state = "DECIMAL" THEN createDecimalToken(lexeme, line, column, startPos)
  ELSE NoToken

NumberAutomaton_recognize(input, startPos, line, column) ==
  NumberLoop(input, startPos, line, column, "START", startPos, <<>>)

\* -------------------------------------------------------- OperatorAutomaton

OPERATORS ==
  {<<<<"+">>, "PLUS">>, <<<<"-">>, "MINUS">>, <<<<"*">>, "MULTIPLY">>,
   <<<<"/">>, "DIVIDE">>, <<<<"%">>, "MODULO">>,
   <<<<"=", "=">>, "EQUALS">>, <<<<"!", "=">>, "NOT_EQUALS">>,
   <<<<"<">>, "LESS_THAN">>, <<<<">">>, "GREATER_THAN">>,
   <<<<"<", "=">>, "LESS_EQUALS">>, <<<<">", "=">>, "GREATER_EQUALS">>,
   <<<<"=", "=", "=">>, "IDENTITY_EQUALS">>,
   <<<<"!", "=", "=">>, "IDENTITY_NOT_EQUALS">>,
   <<<<"&", "&">>, "AND">>, <<<<"|", "|">>, "OR">>, <<<<"!">>, "NOT">>,
   <<<<"&">>, "BITWISE_AND">>, <<<<"|">>, "BITWISE_OR">>,
   <<<<"^">>, "BITWISE_XOR">>,
   <<<<"=">>, "ASSIGN">>, <<<<"+", "=">>, "PLUS_ASSIGN">>,
   <<<<"-", "=">>, "MINUS_ASSIGN">>, <<<<"*", "=">>, "MULTIPLY_ASSIGN">>,
   <<<<"/", "=">>, "DIVIDE_ASSIGN">>, <<<<"%", "=">>, "MODULO_ASSIGN">>,
   <<<<"+", "+">>, "INCREMENT">>, <<<<"-", "-">>, "DECREMENT">>,
   <<<<"?", ".">>, "SAFE_CALL">>, <<<<"!", "!">>, "NOT_NULL_ASSERTION">>,
   <<<<"?", ":">>, "ELVIS">>, <<<<":", ":">>, "DOUBLE_COLON">>,
   <<<<".", ".">>, "RANGE">>, <<<<"-", ">">>, "ARROW">>,
   <<<<"a", "s">>, "AS">>, <<<<"a", "s", "?">>, "SAFE_CAST">>}

Min(a, b) == IF a <= b THEN a ELSE b

\* Map.has and Map.get of a table written as a set of <<key, value>> entries.
MapHas(map, key) == \E entry \in map : entry[1] = key

MapGet(map, key) == (CHOOSE entry \in map : entry[1] = key)[2]

\* The candidate lengths whose substring is an entry of the table.
OperatorHits(input, startPos) ==
  LET maxLength == Min(3, Len(input) - startPos)
  IN {length \in 1..maxLength :
        MapHas(OPERATORS, Substring(input, startPos, startPos + length))}

OperatorFirstHit_Shortest(hits) ==
  CHOOSE length \in hits : \A other \in hits : other >= length

\* The loop runs from maxLength down to 1 and stops at the first hit.
OperatorFirstHit(hits) ==
  CHOOSE length \in hits : \A other \in hits : other <= length

\* The token, and the automaton's state field when recognize returns.  state
\* is the field on entry, which reset() overwrites before anything reads it.
OperatorAutomaton_recognize(state, input, startPos, line, column) ==
  LET hits == OperatorHits(input, startPos)
  IN IF hits # {}
     THEN LET longestMatch ==
                Substring(input, startPos, startPos + OperatorFirstHit(hits))
          IN [token |-> createToken(MapGet(OPERATORS, longestMatch), longestMatch, line,
                                    column, startPos, NoValue),
              state |-> "ACCEPT"]
     ELSE [token |-> NoToken, state |-> "START"]

\* ------------------------------------------------------- DelimiterAutomaton

DELIMITERS ==
  {<<"(", "LPAREN">>, <<")", "RPAREN">>, <<"{", "LBRACE">>,
   <<"}", "RBRACE">>, <<"[", "LBRACKET">>, <<"]", "RBRACKET">>,
   <<";", "SEMICOLON">>, <<",", "COMMA">>, <<".", "DOT">>,
   <<":", "COLON">>}

DelimiterAutomaton_recognize(state, input, startPos, line, column) ==
  LET char == peek(input, startPos, 0)
  IN IF MapHas(DELIMITERS, char)
     THEN [token |-> createToken(MapGet(DELIMITERS, char), <<char>>, line, column,
                                 startPos, NoValue),
           state |-> "ACCEPT"]
     ELSE [token |-> NoToken, state |-> "START"]

\* ------------------------------------------------------------ ReservedWords

KEYWORDS ==
  {<<"p","a","c","k","a","g","e">>, <<"i","m","p","o","r","t">>,
   <<"c","l","a","s","s">>, <<"i","n","t","e","r","f","a","c","e">>,
   <<"o","b","j","e","c","t">>, <<"f","u","n">>, <<"v","a","l">>,
   <<"v","a","r">>, <<"t","y","p","e","a","l","i","a","s">>,
   <<"p","u","b","l","i","c">>, <<"p","r","i","v","a","t","e">>,
   <<"p","r","o","t","e","c","t","e","d">>, <<"i","n","t","e","r","n","a","l">>,
   <<"o","p","e","n">>, <<"f","i","n","a","l">>,
   <<"a","b","s","t","r","a","c","t">>, <<"s","e","a","l","e","d">>,
   <<"o","v","e","r","r","i","d","e">>, <<"l","a","t","e","i","n","i","t">>,
   <<"i","n","n","e","r">>, <<"d","a","t","a">>, <<"e","n","u","m">>,
   <<"a","n","n","o","t","a","t","i","o","n">>,
   <<"c","o","m","p","a","n","i","o","n">>, <<"i","n","l","i","n","e">>,
   <<"i","n","f","i","x">>, <<"o","p","e","r","a","t","o","r">>,
   <<"s","u","s","p","e","n","d">>, <<"t","a","i","l","r","e","c">>,
   <<"e","x","t","e","r","n","a","l">>,
   <<"i","f">>, <<"e","l","s","e">>, <<"w","h","e","n">>, <<"f","o","r">>,
   <<"w","h","i","l","e">>, <<"d","o">>, <<"r","e","t","u","r","n">>,
   <<"b","r","e","a","k">>, <<"c","o","n","t","i","n","u","e">>,
   <<"t","h","r","o","w">>, <<"t","r","y">>, <<"c","a","t","c","h">>,
   <<"f","i","n","a","l","l","y">>,
   <<"i","n">>, <<"i","s">>, <<"a","s">>,
   <<"t","r","u","e">>, <<"f","a","l","s","e">>, <<"n","u","l","l">>,
   <<"t","h","i","s">>, <<"s","u","p","e","r">>, <<"w","h","e","r","e">>,
   <<"b","y">>, <<"g","e","t">>, <<"s","e","t">>,
   <<"c","o","n","s","t","r","u","c","t","o","r">>, <<"i","n","i","t">>,
   <<"f","i","e","l","d">>, <<"p","r","o","p","e","r","t","y">>,
   <<"r","e","c","e","i","v","e","r">>, <<"p","a","r","a","m">>,
   <<"s","e","t","p","a","r","a","m">>, <<"d","e","l","e","g","a","t","e">>,
   <<"f","i","l","e">>, <<"e","x","p","e","c","t">>, <<"a","c","t","u","a","l">>,
   <<"c","o","n","s","t">>, <<"d","y","n","a","m","i","c">>,
   <<"r","e","i","f","i","e","d">>}

UpperSeq ==
  <<"A", "B", "C", "D", "E", "F", "G", "H", "I", "J", "K", "L", "M",
    "N", "O", "P", "Q", "R", "S", "T", "U", "V", "W", "X", "Y", "Z">>

LowerSeq ==
  <<"a", "b", "c", "d", "e", "f", "g", "h", "i", "j", "k", "l", "m",
    "n", "o", "p", "q", "r", "s", "t", "u", "v", "w", "x", "y", "z">>

\* String.prototype.toLowerCase, character by character.
toLowerCase(word) ==
  [i \in 1..Len(word) |->
     IF word[i] \in UpperLetters
     THEN LowerSeq[CHOOSE k \in 1..26 : UpperSeq[k] = word[i]]
     ELSE word[i]]

isKeyword(word) == toLowerCase(word) \in KEYWORDS

getTokenType(word) == IF isKeyword(word) THEN "KEYWORD" ELSE "IDENTIFIER"

\* ------------------------------------------------------ IdentifierAutomaton

MAX_IDENTIFIER_LENGTH == 15

\* The end of the run of identifier-part characters from pos.
RECURSIVE IdentifierRunEnd(_, _)
IdentifierRunEnd(input, pos) ==
  IF pos < Len(input) /\ isIdentifierPart(peek(input, pos, 0))
  THEN IdentifierRunEnd(input, pos + 1)
  ELSE pos

\* A length check that never rejects.
IdentifierLimitExceeded_Never(identifierLength) == FALSE

\* The length check made after counting a character.
IdentifierLimitExceeded(identifierLength) ==
  identifierLength > MAX_IDENTIFIER_LENGTH

\* The main loop: where it stops, and whether the length limit rejected.
RECURSIVE IdentifierLoop(_, _, _)
IdentifierLoop(input, pos, identifierLength) ==
  IF pos < Len(input) /\ isIdentifierPart(peek(input, pos, 0))
  THEN IF IdentifierLimitExceeded(identifierLength + 1)
       THEN [pos |-> IdentifierRunEnd(input, pos), rejected |-> TRUE]
       ELSE IdentifierLoop(input, pos + 1, identifierLength + 1)
  ELSE [pos |-> pos, rejected |-> FALSE]

IdentifierAutomaton_recognize(state, input, startPos, line, column) ==
  IF ~isIdentifierStart(peek(input, startPos, 0))
  THEN [token |-> NoToken, state |-> "START"]
  ELSE LET end == IdentifierLoop(input, startPos + 1, 1)
       IN IF end.rejected
          THEN [token |-> NoToken, state |-> "REJECT"]
          ELSE LET lexeme == Substring(input, startPos, end.pos)
                   tokenType == IF isKeyword(lexeme) THEN getTokenType(lexeme)
                                ELSE "IDENTIFIER"
               IN [token |-> createToken(tokenType, lexeme, line, column,
                                         startPos, NoValue),
                   state |-> "ACCEPT"]

\* --------------------------------------------------------- CommentAutomaton

\* BaseAutomaton.consume: the offset after consuming one character.
consume(input, pos) == IF pos < Len(input) THEN pos + 1 ELSE pos

\* The characters String.prototype.trim strips, among those modelled.
TrimChars == {" ", "\t", "\n", "\r", "\f"}

RECURSIVE trimStart(_)
trimStart(text) ==
  IF text # <<>> /\ Head(text) \in TrimChars THEN trimStart(Tail(text)) ELSE text

RECURSIVE trimEnd(_)
trimEnd(text) ==
  IF text # <<>> /\ text[Len(text)] \in TrimChars
  THEN trimEnd(SubSeq(text, 1, Len(text) - 1))
  ELSE text

trim(text) == trimEnd(trimStart(text))

RECURSIVE LineCommentEnd_OnlyLineFeed(_, _)
LineCommentEnd_OnlyLineFeed(input, pos) ==
  IF pos < Len(input) /\ peek(input, pos, 0) # "\n"
  THEN LineCommentEnd_OnlyLineFeed(input, consume(input, pos))
  ELSE pos

\* The offset where the loop of recognizeLineComment stops.
RECURSIVE LineCommentEnd(_, _)
LineCommentEnd(input, pos) ==
  IF pos < Len(input) /\ peek(input, pos, 0) \notin {"\n", "\r"}
  THEN LineCommentEnd(input, consume(input, pos))
  ELSE pos

\* pos is the offset of the second '/'.
recognizeLineComment(input, pos, line, column, startPos) ==
  LET from == consume(input, pos)
      end == LineCommentEnd(input, from)
  IN [token |-> createToken("LINE_COMMENT", Substring(input, startPos, end), line,
                            column, startPos, trim(Substring(input, from, end))),
      state |-> "ACCEPT"]

NestedCommentOpened_Ignored(nestingLevel) == nestingLevel

\* nestingLevel++ on a further opener inside a block comment.
NestedCommentOpened(nestingLevel) == nestingLevel + 1

\* The loop of recognizeBlockComment: whether it accepted, where it stopped and
\* the content gathered.
RECURSIVE BlockCommentLoop(_, _, _, _)
BlockCommentLoop(input, pos, nestingLevel, commentContent) ==
  IF pos < Len(input) /\ nestingLevel > 0
  THEN LET char == peek(input, pos, 0) IN
       IF char = "*" /\ peek(input, pos, 1) = "/"
       THEN IF nestingLevel - 1 = 0
            THEN [accepted |-> TRUE, pos |-> consume(input, consume(input, pos)),
                  content |-> commentContent]
            ELSE BlockCommentLoop(input, consume(input, pos), nestingLevel - 1,
                                  Append(commentContent, char))
       ELSE IF char = "/" /\ peek(input, pos, 1) = "*"
       THEN BlockCommentLoop(input, consume(input, pos),
                             NestedCommentOpened(nestingLevel),
                             Append(commentContent, char))
       ELSE BlockCommentLoop(input, consume(input, pos), nestingLevel,
                             Append(commentContent, char))
  ELSE [accepted |-> FALSE, pos |-> pos, content |-> commentContent]

\* pos is the offset after the opening slash and star.
recognizeBlockComment(input, pos, line, column, startPos) ==
  LET end == BlockCommentLoop(input, pos, 1, <<>>)
  IN IF end.accepted
     THEN [token |-> createToken("BLOCK_COMMENT", Substring(input, startPos, end.pos),
                                 line, column, startPos, trim(end.content)),
           state |-> "ACCEPT"]
     ELSE [token |-> NoToken, state |-> "REJECT"]

RECURSIVE DocCommentLoop(_, _, _)
DocCommentLoop(input, pos, commentContent) ==
  IF pos < Len(input)
  THEN LET char == peek(input, pos, 0) IN
       IF char = "*" /\ peek(input, pos, 1) = "/"
       THEN [accepted |-> TRUE, pos |-> consume(input, consume(input, pos)),
             content |-> commentContent]
       ELSE DocCommentLoop(input, consume(input, pos), Append(commentContent, char))
  ELSE [accepted |-> FALSE, pos |-> pos, content |-> commentContent]

\* pos is the offset of the second '*'.
recognizeDocComment(input, pos, line, column, startPos) ==
  LET end == DocCommentLoop(input, consume(input, pos), <<>>)
  IN IF end.accepted
     THEN [token |-> createToken("DOC_COMMENT", Substring(input, startPos, end.pos),
                                 line, column, startPos, trim(end.content)),
           state |-> "ACCEPT"]
     ELSE [token |-> NoToken, state |-> "REJECT"]

CommentAutomaton_recognize(state, input, startPos, line, column) ==
  IF peek(input, startPos, 0) # "/"
  THEN [token |-> NoToken, state |-> "START"]
  ELSE LET pos == consume(input, startPos)
           secondChar == peek(input, pos, 0)
       IN IF secondChar = "/"
          THEN recognizeLineComment(input, pos, line, column, startPos)
          ELSE IF secondChar = "*"
          THEN IF peek(input, consume(input, pos), 0) = "*"
               THEN recognizeDocComment(input, consume(input, pos), line, column,
                                        startPos)
               ELSE recognizeBlockComment(input, consume(input, pos), line, column,
                                          startPos)
          ELSE [token |-> NoToken, state |-> "SLASH"]

\* ----------------------------------------------------------- CharacterUtils

\* The printable ASCII characters in code order, from code 32 (the grave
\* accent, code 96, written by name).
Ascii ==
  <<" ", "!", "\"", "#", "$", "%", "&", "'", "(", ")", "*", "+",
    ",", "-", ".", "/", "0", "1", "2", "3", "4", "5", "6", "7",
    "8", "9", ":", ";", "<", "=", ">", "?", "@", "A", "B", "C",
    "D", "E", "F", "G", "H", "I", "J", "K", "L", "M", "N", "O",
    "P", "Q", "R", "S", "T", "U", "V", "W", "X", "Y", "Z", "[",
    "\\", "]", "^", "_", "U+0060", "a", "b", "c", "d", "e", "f", "g",
    "h", "i", "j", "k", "l", "m", "n", "o", "p", "q", "r", "s",
    "t", "u", "v", "w", "x", "y", "z", "{", "|", "}", "~">>

\* Characters written by name: controls and the code units the validity
\* predicate rejects.
SpecialCodes ==
  {<<NUL, 0>>, <<"U+0007", 7>>, <<"U+0008", 8>>, <<"\t", 9>>,
   <<"\n", 10>>, <<"\f", 12>>, <<"\r", 13>>, <<"U+D800", 55296>>,
   <<"U+FDD0", 64976>>, <<"U+FFFD", 65533>>}

charCodeAt(char) ==
  IF MapHas(SpecialCodes, char) THEN MapGet(SpecialCodes, char)
  ELSE 31 + (CHOOSE i \in 1..Len(Ascii) : Ascii[i] = char)

escapeMap ==
  {<<"n", "\n">>, <<"t", "\t">>, <<"r", "\r">>, <<"b", "U+0008">>,
   <<"f", "\f">>, <<"\\", "\\">>, <<"\"", "\"">>, <<"'", "'">>,
   <<"$", "$">>, <<"0", NUL>>}

\* escapeMap[char] || char: every mapped value is a non-empty string.
escapeCharToValue(char) ==
  IF MapHas(escapeMap, char) THEN MapGet(escapeMap, char) ELSE char

\* JavaScript's null, which the automaton compares an escape's value with.
JsNull == "null"

isValidUnicodeChar(char) ==
  LET code == charCodeAt(char)
  IN /\ code # 65533
     /\ ~(code < 32 /\ code # 9 /\ code # 10 /\ code # 13)
     /\ ~(code >= 55296 /\ code <= 57343)
     /\ ~(code >= 64976 /\ code <= 65007)

\* ---------------------------------------------------------- StringAutomaton

Rejected == [accepted |-> FALSE]

\* The loop of recognizeChar from pos, the offset after the opening quote.
RECURSIVE CharLoop(_, _, _, _)
CharLoop(input, pos, escaped, charContent) ==
  IF pos < Len(input)
  THEN LET char == peek(input, pos, 0) IN
       IF escaped
       THEN LET escapedValue == escapeCharToValue(char)
            IN IF escapedValue = JsNull
               THEN Rejected
               ELSE CharLoop(input, consume(input, pos), FALSE,
                             Append(charContent, escapedValue))
       ELSE IF char = "\\" THEN CharLoop(input, consume(input, pos), TRUE, charContent)
       ELSE IF char = "'"
       THEN [accepted |-> TRUE, pos |-> consume(input, pos), content |-> charContent]
       ELSE IF char = "\n" \/ char = "\r" THEN Rejected
       ELSE IF ~isValidUnicodeChar(char) THEN Rejected
       ELSE CharLoop(input, consume(input, pos), FALSE, Append(charContent, char))
  ELSE Rejected

recognizeChar(input, pos, line, column, startPos) ==
  LET end == CharLoop(input, consume(input, pos), FALSE, <<>>)
  IN IF end.accepted
     THEN [token |-> createToken("CHAR", Substring(input, startPos, end.pos), line,
                                 column, startPos, end.content),
           state |-> "ACCEPT"]
     ELSE [token |-> NoToken, state |-> "REJECT"]

\* consumeTemplateBrace's loop: the offset where it stops and what it gathered.
RECURSIVE TemplateBraceLoop(_, _, _, _)
TemplateBraceLoop(input, pos, braceCount, content) ==
  IF pos < Len(input) /\ braceCount > 0
  THEN LET char == peek(input, pos, 0)
           count == IF char = "{" THEN braceCount + 1
                    ELSE IF char = "}" THEN braceCount - 1
                    ELSE braceCount
       IN TemplateBraceLoop(input, consume(input, pos), count, Append(content, char))
  ELSE [pos |-> pos, content |-> content]

\* pos is the offset of the opening brace.
consumeTemplateBrace(input, pos) ==
  TemplateBraceLoop(input, consume(input, pos), 1, <<"{">>)

RECURSIVE TemplateVariableLoop(_, _, _)
TemplateVariableLoop(input, pos, content) ==
  IF pos < Len(input) /\ isIdentifierPart(peek(input, pos, 0))
  THEN TemplateVariableLoop(input, consume(input, pos),
                            Append(content, peek(input, pos, 0)))
  ELSE [pos |-> pos, content |-> content]

consumeTemplateVariable(input, pos) ==
  IF isIdentifierStart(peek(input, pos, 0))
  THEN TemplateVariableLoop(input, pos, <<>>)
  ELSE [pos |-> pos, content |-> <<>>]

\* The loop of recognizeString from pos, the offset after the opening quote.
RECURSIVE StringLoop(_, _, _, _, _)
StringLoop(input, pos, escaped, hasTemplate, stringContent) ==
  IF pos < Len(input)
  THEN LET char == peek(input, pos, 0) IN
       IF escaped
       THEN LET escapedValue == escapeCharToValue(char)
            IN IF escapedValue = JsNull
               THEN Rejected
               ELSE StringLoop(input, consume(input, pos), FALSE, hasTemplate,
                               Append(stringContent, escapedValue))
       ELSE IF char = "\\"
       THEN StringLoop(input, consume(input, pos), TRUE, hasTemplate, stringContent)
       ELSE IF char = "$"
       THEN LET after == consume(input, pos)
                part == IF peek(input, after, 0) = "{"
                        THEN consumeTemplateBrace(input, after)
                        ELSE consumeTemplateVariable(input, after)
            IN StringLoop(input, part.pos, FALSE, TRUE,
                          Append(stringContent, char) \o part.content)
       ELSE IF char = "\""
       THEN [accepted |-> TRUE, pos |-> consume(input, pos),
             content |-> stringContent, hasTemplate |-> hasTemplate]
       ELSE IF char = "\n" \/ char = "\r" THEN Rejected
       ELSE IF ~isValidUnicodeChar(char) THEN Rejected
       ELSE StringLoop(input, consume(input, pos), FALSE, hasTemplate,
                       Append(stringContent, char))
  ELSE Rejected

recognizeString(input, pos, line, column, startPos) ==
  LET end == StringLoop(input, consume(input, pos), FALSE, FALSE, <<>>)
  IN IF end.accepted
     THEN [token |-> createToken(IF end.hasTemplate THEN "STRING_TEMPLATE"
                                 ELSE "STRING",
                                 Substring(input, startPos, end.pos), line, column,
                                 startPos, end.content),
           state |-> "ACCEPT"]
     ELSE [token |-> NoToken, state |-> "REJECT"]

RawStringClosed_TwoQuotes(input, pos) ==
  peek(input, pos, 0) = "\"" /\ peek(input, pos, 1) = "\""

\* The test for the closing quotes at pos: three quotes in a row.
RawStringClosed(input, pos) ==
  /\ peek(input, pos, 0) = "\""
  /\ peek(input, pos, 1) = "\""
  /\ peek(input, pos, 2) = "\""

\* The loop of recognizeRawString from pos, the offset after the opening quotes.
RECURSIVE RawStringLoop(_, _, _)
RawStringLoop(input, pos, stringContent) ==
  IF pos < Len(input)
  THEN LET char == peek(input, pos, 0) IN
       IF RawStringClosed(input, pos)
       THEN [accepted |-> TRUE,
             pos |-> consume(input, consume(input, consume(input, pos))),
             content |-> stringContent]
       ELSE RawStringLoop(input, consume(input, pos), Append(stringContent, char))
  ELSE Rejected

recognizeRawString(input, pos, line, column, startPos) ==
  LET end == RawStringLoop(input, consume(input, consume(input, consume(input, pos))),
                           <<>>)
  IN IF end.accepted
     THEN [token |-> createToken("RAW_STRING", Substring(input, startPos, end.pos),
                                 line, column, startPos, end.content),
           state |-> "ACCEPT"]
     ELSE [token |-> NoToken, state |-> "REJECT"]

\* The dispatch of recognize on the first character, after reset().
StringDispatch(input, startPos, line, column) ==
  LET firstChar == peek(input, startPos, 0)
  IN IF firstChar = "'"
     THEN recognizeChar(input, startPos, line, column, startPos)
     ELSE IF firstChar = "\""
     THEN IF peek(input, startPos, 1) = "\"" /\ peek(input, startPos, 2) = "\""
          THEN recognizeRawString(input, startPos, line, column, startPos)
          ELSE recognizeString(input, startPos, line, column, startPos)
     ELSE [token |-> NoToken, state |-> "START"]

StringAutomaton_recognize_StaleReject(state, input, startPos, line, column) ==
  IF state = "REJECT"
  THEN [token |-> NoToken, state |-> "REJECT"]
  ELSE StringDispatch(input, startPos, line, column)

\* state is the field on entry, which reset() overwrites before anything
\* reads it.
StringAutomaton_recognize(state, input, startPos, line, column) ==
  StringDispatch(input, startPos, line, column)

\* ------------------------------------------------------------- LexerService

\* An absent error of a RecognitionResult.
NoError == [type |-> "NO_ERROR"]

\* The automata the constructor creates, each with its state field.
InitialAutomata ==
  [identifier |-> "START", string |-> "START", comment |-> "START",
   operator |-> "START", delimiter |-> "START"]

\* restOfInput.includes('*/'), restOfInput being input.substring(position).
RestIncludesClose(input, position) ==
  \E i \in position..(Len(input) - 2) : input[i + 1] = "*" /\ input[i + 2] = "/"

UnclosedBlockCommentSkip_InputLength(input, position) == Len(input)

\* skipLength of an unclosed block comment: to the end of the input.
UnclosedBlockCommentSkip(input, position) == Len(input) - position

\* The end of the line from pos: the offset of the next line break, or the
\* length of the input.
RECURSIVE UnclosedStringEnd(_, _)
UnclosedStringEnd(input, endPos) ==
  IF endPos < Len(input) /\ input[endPos + 1] \notin {"\n", "\r"}
  THEN UnclosedStringEnd(input, endPos + 1)
  ELSE endPos

\* The RecognitionResult of an unclosed string or char at position.
UnclosedStringResult(input, position, line, column, automata) ==
  LET currentChar == input[position + 1]
      quoteType == IF currentChar = "\"" THEN "Cadena" ELSE "Caracter"
      lexeme == Substring(input, position, UnclosedStringEnd(input, position + 1))
  IN [token |-> NoToken,
      error |-> [type |-> "UNCLOSED_STRING",
                 message |-> <<quoteType, " sin cerrar (falta ", currentChar, ")">>,
                 line |-> line, column |-> column, lexeme |-> lexeme],
      skipLength |-> Len(lexeme), automata |-> automata]

TokenResult(token, automata) ==
  [token |-> token, error |-> NoError, skipLength |-> 0, automata |-> automata]

\* A copy of the automata with one state field set.
WithState(automata, name, state) == [automata EXCEPT ![name] = state]

\* 6. Delimiters; a null token here is recognizeToken's null.
DelimiterStage(delimiter, automata) ==
  TokenResult(delimiter.token, WithState(automata, "delimiter", delimiter.state))

\* 5. Identifiers and reserved words.
IdentifierStage(identifier, automata, input, position, line, column) ==
  IF identifier.token # NoToken
  THEN TokenResult(identifier.token,
                   WithState(automata, "identifier", identifier.state))
  ELSE DelimiterStage(
         DelimiterAutomaton_recognize(automata.delimiter, input, position, line,
                                      column),
         WithState(automata, "identifier", identifier.state))

\* The delimiters tried before the result of the operators is looked at.
OperatorStage_DelimiterFirst(operator, automata, input, position, line, column) ==
  IF DelimiterAutomaton_recognize(automata.delimiter, input, position, line,
                                  column).token # NoToken
  THEN DelimiterStage(
         DelimiterAutomaton_recognize(automata.delimiter, input, position, line,
                                      column),
         automata)
  ELSE IF operator.token # NoToken
  THEN TokenResult(operator.token, WithState(automata, "operator", operator.state))
  ELSE IdentifierStage(
         IdentifierAutomaton_recognize(automata.identifier, input, position, line,
                                       column),
         WithState(automata, "operator", operator.state),
         input, position, line, column)

\* 4. Operators.
OperatorStage(operator, automata, input, position, line, column) ==
  IF operator.token # NoToken
  THEN TokenResult(operator.token, WithState(automata, "operator", operator.state))
  ELSE IdentifierStage(
         IdentifierAutomaton_recognize(automata.identifier, input, position, line,
                                       column),
         WithState(automata, "operator", operator.state),
         input, position, line, column)

\* 3. Numbers.
NumberStage(number, automata, input, position, line, column) ==
  IF number # NoToken
  THEN TokenResult(number, automata)
  ELSE OperatorStage(
         OperatorAutomaton_recognize(automata.operator, input, position, line,
                                     column),
         automata, input, position, line, column)

\* 2. Strings and chars, when the current character is a quote.
StringStage(string, automata, input, position, line, column) ==
  IF string.token # NoToken
  THEN TokenResult(string.token, WithState(automata, "string", string.state))
  ELSE UnclosedStringResult(input, position, line, column,
                            WithState(automata, "string", string.state))

\* What follows the comment attempt (or none): the strings for a quote, else
\* the other automata.
AfterComment(automata, input, position, line, column) ==
  IF input[position + 1] = "\"" \/ input[position + 1] = "'"
  THEN StringStage(
         StringAutomaton_recognize(automata.string, input, position, line, column),
         automata, input, position, line, column)
  ELSE NumberStage(NumberAutomaton_recognize(input, position, line, column),
                   automata, input, position, line, column)

\* 1. Comments, when the current character is '/'.
CommentStage(comment, automata, input, position, line, column) ==
  IF comment.token # NoToken
  THEN TokenResult(comment.token, WithState(automata, "comment", comment.state))
  ELSE IF /\ position + 1 < Len(input)
          /\ input[position + 2] = "*"
          /\ ~RestIncludesClose(input, position)
  THEN [token |-> NoToken,
        error |-> [type |-> "UNCLOSED_BLOCK_COMMENT",
                   message |-> <<"Comentario de bloque sin cerrar (falta */)">>,
                   line |-> line, column |-> column,
                   lexeme |-> Substring(input, position,
                                        Min(position + 50, Len(input)))],
        skipLength |-> UnclosedBlockCommentSkip(input, position),
        automata |-> WithState(automata, "comment", comment.state)]
  ELSE AfterComment(WithState(automata, "comment", comment.state), input, position,
                    line, column)

\* The RecognitionResult at position (null: neither token nor error), and
\* the automata as the calls leave them.
recognizeToken(automata, input, position, line, column) ==
  IF input[position + 1] = "/"
  THEN CommentStage(
         CommentAutomaton_recognize(automata.comment, input, position, line, column),
         automata, input, position, line, column)
  ELSE AfterComment(automata, input, position, line, column)

UnrecognizedTokenError_RestOfInput(input, position, line, column) ==
  [type |-> "UNRECOGNIZED_TOKEN",
   message |-> <<"Caracter no reconocido: '", input[position + 1], "'">>,
   line |-> line, column |-> column,
   lexeme |-> Substring(input, position, Len(input))]

\* The error analyze pushes when recognizeToken returns null.
UnrecognizedTokenError(input, position, line, column) ==
  [type |-> "UNRECOGNIZED_TOKEN",
   message |-> <<"Caracter no reconocido: '", input[position + 1], "'">>,
   line |-> line, column |-> column,
   lexeme |-> <<input[position + 1]>>]

\* position += tokenLength after an accepted token.
TokenAdvance_One(token) == 1

TokenAdvance(token) == token.length

\* What an iteration does with the result of recognizeToken.
ScanOutcome(result, input, position, line, column) ==
  IF result.token # NoToken
  THEN [position |-> position + TokenAdvance(result.token), line |-> line,
        column |-> column + TokenAdvance(result.token), kind |-> "token",
        token |-> result.token, error |-> NoError, automata |-> result.automata]
  ELSE IF result.error # NoError
  THEN [position |-> position + (IF result.skipLength > 0 THEN result.skipLength
                                 ELSE 1),
        line |-> line,
        column |-> column + (IF result.skipLength > 0 THEN result.skipLength
                             ELSE 1),
        kind |-> "error", token |-> NoToken, error |-> result.error,
        automata |-> result.automata]
  ELSE [position |-> position + 1, line |-> line, column |-> column + 1,
        kind |-> "error", token |-> NoToken,
        error |-> UnrecognizedTokenError(input, position, line, column),
        automata |-> result.automata]

\* An iteration that only skips: blanks and line breaks.
Elided(automata, newPosition, newLine, newColumn) ==
  [position |-> newPosition, line |-> newLine, column |-> newColumn,
   kind |-> "elided", token |-> NoToken, error |-> NoError, automata |-> automata]

\* One iteration of the scan loop of analyze at position < input.length: the
\* new offset, line and column, the token or error it pushes, what the step
\* was, and the automata after it.
ScanIteration(automata, input, position, line, column) ==
  IF /\ isWhitespace(input[position + 1])
     /\ input[position + 1] # "\n"
     /\ input[position + 1] # "\r"
  THEN Elided(automata, position + 1, line, column + 1)
  ELSE IF input[position + 1] = "\n"
  THEN Elided(automata, position + 1, line + 1, 1)
  ELSE IF input[position + 1] = "\r"
  THEN Elided(automata,
              IF position + 1 < Len(input) /\ input[position + 2] = "\n"
              THEN position + 2 ELSE position + 1,
              line + 1, 1)
  ELSE ScanOutcome(recognizeToken(automata, input, position, line, column),
                   input, position, line, column)

\* A sentinel carrying the end-of-input character as its lexeme.
EofToken_EofChar(line, column, position) ==
  [type |-> "EOF", lexeme |-> <<NUL>>, line |-> line, column |-> column,
   position |-> position, length |-> 1]

\* The sentinel analyze appends after the loop.
EofToken(line, column, position) ==
  [type |-> "EOF", lexeme |-> <<>>, line |-> line, column |-> column,
   position |-> position, length |-> 0]

\* The tokens and errors analyze(input) returns on a service whose automata
\* are in the given states: the loop run to its end, then the sentinel.
RECURSIVE AnalyzeLoop(_, _, _, _, _, _)
AnalyzeFrom(step, input, tokens, errors) ==
  AnalyzeLoop(step.automata, input, step.position, step.line, step.column,
              [tokens |-> IF step.token # NoToken THEN Append(tokens, step.token)
                          ELSE tokens,
               errors |-> IF step.error # NoError THEN Append(errors, step.error)
                          ELSE errors])

AnalyzeLoop(automata, input, position, line, column, lists) ==
  IF position < Len(input)
  THEN AnalyzeFrom(ScanIteration(automata, input, position, line, column), input,
                   lists.tokens, lists.errors)
  ELSE [tokens |-> Append(lists.tokens, EofToken(line, column, position)),
        errors |-> lists.errors]

analyze(automata, input) ==
  AnalyzeLoop(automata, input, 0, 1, 1, [tokens |-> <<>>, errors |-> <<>>])

\* --------------------------------------------------------------- statistics

isOperator(type) ==
  type \in {"PLUS", "MINUS", "MULTIPLY", "DIVIDE", "MODULO",
            "EQUALS", "NOT_EQUALS", "LESS_THAN", "GREATER_THAN",
            "LESS_EQUALS", "GREATER_EQUALS", "IDENTITY_EQUALS",
            "IDENTITY_NOT_EQUALS",
            "AND", "OR", "NOT",
            "ASSIGN", "PLUS_ASSIGN", "MINUS_ASSIGN", "MULTIPLY_ASSIGN",
            "DIVIDE_ASSIGN", "MODULO_ASSIGN",
            "INCREMENT", "DECREMENT",
            "SAFE_CALL", "NOT_NULL_ASSERTION", "ELVIS", "RANGE",
            "ARROW", "DOUBLE_COLON", "AS", "SAFE_CAST"}

isLiteral(type) ==
  type \in {"INTEGER", "DECIMAL", "STRING", "CHAR", "RAW_STRING",
            "STRING_TEMPLATE", "BOOLEAN", "NULL"}

isComment(type) == type \in {"LINE_COMMENT", "BLOCK_COMMENT", "DOC_COMMENT"}

\* The histogram the forEach builds: for every type that occurs, how many
\* tokens have it.
tokenDistribution(tokenList) ==
  [typeName \in {tokenList[i].type : i \in DOMAIN tokenList} |->
     Cardinality({i \in DOMAIN tokenList : tokenList[i].type = typeName})]

\* input.split('\n').length
SplitLines(input) == 1 + Cardinality({i \in DOMAIN input : input[i] = "\n"})

totalTokens_WithSentinel(tokenList) == Len(tokenList)

\* tokens.length - 1: the sentinel is not counted.
totalTokens(tokenList) == Len(tokenList) - 1

calculateStatistics(tokenList, errorList, input) ==
  [totalTokens |-> totalTokens(tokenList),
   totalLines |-> SplitLines(input),
   totalCharacters |-> Len(input),
   tokenDistribution |-> tokenDistribution(tokenList),
   keywordCount |->
     Cardinality({i \in DOMAIN tokenList : tokenList[i].type = "KEYWORD"}),
   identifierCount |->
     Cardinality({i \in DOMAIN tokenList : tokenList[i].type = "IDENTIFIER"}),
   operatorCount |->
     Cardinality({i \in DOMAIN tokenList : isOperator(tokenList[i].type)}),
   literalCount |->
     Cardinality({i \in DOMAIN tokenList : isLiteral(tokenList[i].type)}),
   commentCount |->
     Cardinality({i \in DOMAIN tokenList : isComment(tokenList[i].type)})]

\* -------------------------------------------------------------------- state

\* No call of analyze has returned yet.
NoResult == [returned |-> FALSE]

\* A success flag that does not look at the diagnostics.
ResultSuccess_Always(errorList) == TRUE

\* The success field of the AnalysisResult.
ResultSuccess(errorList) == Len(errorList) = 0

VARIABLES
  pc,        \* "idle": no call yet; "scan": in the loop of analyze; "done": returned
  runs,      \* the calls of analyze made on this LexerService
  automata,  \* the state fields of the service's automata
  input,     \* the argument of the current call
  position,  \* analyze's locals
  line,
  column,
  tokens,
  errors,
  spans,     \* history: what each iteration of the current call consumed
  entry,     \* history: the automata states the current call started from
  result     \* what the current call returned besides tokens and errors

vars ==
  <<pc, runs, automata, input, position, line, column, tokens, errors, spans,
    entry, result>>

\* All inputs of at most n characters of alphabet.
StringsUpTo(alphabet, n) == UNION {[1..k -> alphabet] : k \in 0..n}

Init ==
  /\ pc = "idle"
  /\ runs = 0
  /\ automata = InitialAutomata
  /\ input = <<>>
  /\ position = 0
  /\ line = 1
  /\ column = 1
  /\ tokens = <<>>
  /\ errors = <<>>
  /\ spans = <<>>
  /\ entry = InitialAutomata
  /\ result = NoResult

\* A call analyze(text) on the service, for the maxRuns first calls.
Analyze(texts, maxRuns) ==
  /\ pc \in {"idle", "done"}
  /\ runs < maxRuns
  /\ \E text \in texts : input' = text
  /\ pc' = "scan"
  /\ runs' = runs + 1
  /\ position' = 0
  /\ line' = 1
  /\ column' = 1
  /\ tokens' = <<>>
  /\ errors' = <<>>
  /\ spans' = <<>>
  /\ entry' = automata
  /\ result' = NoResult
  /\ UNCHANGED automata

\* The assignments of one iteration, and its entry in the history.
ApplyStep(step) ==
  /\ position' = step.position
  /\ line' = step.line
  /\ column' = step.column
  /\ automata' = step.automata
  /\ tokens' = IF step.token # NoToken THEN Append(tokens, step.token) ELSE tokens
  /\ errors' = IF step.error # NoError THEN Append(errors, step.error) ELSE errors
  /\ spans' = Append(spans,
                     [kind |-> step.kind, from |-> position, to |-> step.position,
                      line |-> line, column |-> column,
                      index |-> IF step.kind = "token" THEN Len(tokens) + 1
                                ELSE IF step.kind = "error" THEN Len(errors) + 1
                                ELSE 0])

\* One iteration of the while loop.
Scan ==
  /\ pc = "scan"
  /\ position < Len(input)
  /\ ApplyStep(ScanIteration(automata, input, position, line, column))
  /\ UNCHANGED <<pc, runs, input, entry, result>>

\* The loop has ended: the sentinel is appended and analyze returns.
Finish ==
  /\ pc = "scan"
  /\ position >= Len(input)
  /\ tokens' = Append(tokens, EofToken(line, column, position))
  /\ result' = [returned |-> TRUE, success |-> ResultSuccess(errors),
                statistics |->
                  calculateStatistics(
                    Append(tokens, EofToken(line, column, position)), errors,
                    input)]
  /\ pc' = "done"
  /\ UNCHANGED <<runs, automata, input, position, line, column, errors, spans,
                 entry>>

\* ----------------------------------------------------------- specifications

\* Every class of character the scan loop tells apart.
Alphabet == {" ", "\n", "\r", "a", "1", ".", "=", "\"", "/", "*", "#"}

\* The inputs the documentation and the examples name.
Examples ==
  {<<"=", "=", "=">>,
   <<"3", ".", "1", "4">>,
   <<"3", ".", ".", "5">>,
   <<"\"", "a", "b", "c">>,
   <<"/", "*", " ", "a", " ", "/", "*", " ", "b", " ", "*", "/", " ", "c">>,
   <<"/", "*", " ", "a", " ", "/", "*", " ", "b", " ", "*", "/", " ", "c", " ",
     "*", "/">>}

Inputs == StringsUpTo(Alphabet, MaxLen) \cup Examples

Next == Analyze(Inputs, 1) \/ Scan \/ Finish

Spec == Init /\ [][Next]_vars

\* Comments: the two delimiters and one content character.
CommentAlphabet == {"/", "*", "a"}
\* The nested documentation comment of the documentation.
DocExamples ==
  {<<"/", "*", "*", " ", "a", " ", "/", "*", " ", "b", " ", "*", "/", " ", "c",
     " ", "*", "/">>}
CommentInputs ==
  StringsUpTo(CommentAlphabet, MaxLenComment) \cup Examples \cup DocExamples
NextComment == Analyze(CommentInputs, 1) \/ Scan \/ Finish
SpecComment == Init /\ [][NextComment]_vars

\* Numbers and operators: digits, the dot, and characters of the operator
\* table (=, !, ?, a, s give =, ==, ===, !, !=, !==, as, as?, ., .., ?., ...).
OperatorAlphabet == {"3", ".", "=", "!", "?", "a", "s"}
\* The special Kotlin operators the documentation lists as supported.
SpecialOperators ==
  {<<"?", ".">>, <<"!", "!">>, <<"?", ":">>, <<":", ":">>, <<".", ".">>,
   <<"-", ">">>, <<"=", ">">>, <<"i", "n">>, <<"!", "i", "n">>, <<"i", "s">>,
   <<"!", "i", "s">>, <<"a", "s">>, <<"a", "s", "?">>}
OperatorInputs ==
  StringsUpTo(OperatorAlphabet, MaxLenOperator) \cup Examples
    \cup SpecialOperators
NextOperator == Analyze(OperatorInputs, 1) \/ Scan \/ Finish
SpecOperator == Init /\ [][NextOperator]_vars

\* Strings: the quote, a content character, the escape, the line break and
\* the template characters.
StringAlphabet == {"\"", "a", "\\", "\n", "$", "{", "}"}
\* Strings whose template expression or escape holds the line break.
MultiLineStrings ==
  {<<"\"", "$", "{", "\n", "}", "\"">>,
   <<"\"", "a", "\\", "\n", "b", "\"">>}
StringInputs ==
  StringsUpTo(StringAlphabet, MaxLenString) \cup Examples \cup MultiLineStrings
NextString == Analyze(StringInputs, 1) \/ Scan \/ Finish
SpecString == Init /\ [][NextString]_vars

\* Several calls on one service: inputs that leave the string and comment
\* automata in their accepting and rejecting states.
ReuseAlphabet == {"\"", "a", "/", "*"}
ReuseInputs == StringsUpTo(ReuseAlphabet, MaxLenReuse)
NextReuse == Analyze(ReuseInputs, MaxRuns) \/ Scan \/ Finish
SpecReuse == Init /\ [][NextReuse]_vars

\* Delimiters: the three kinds of bracket and an identifier character.
DelimiterAlphabet == {"(", ")", "[", "]", "{", "}", "a"}
\* The unbalanced example of the documentation: (a, [b)
DelimiterExamples == {<<"(", "a", ",", " ", "[", "b", ")">>}
DelimiterInputs ==
  StringsUpTo(DelimiterAlphabet, MaxLenDelimiter) \cup DelimiterExamples
NextDelimiter == Analyze(DelimiterInputs, 1) \/ Scan \/ Finish
SpecDelimiter == Init /\ [][NextDelimiter]_vars

\* String and char literals: both quotes, the escape, a character of the
\* escape table (n), one outside it (v) and an invalid codepoint (U+FFFD).
LiteralAlphabet == {"\"", "'", "\\", "n", "v", "U+FFFD"}
LiteralInputs == StringsUpTo(LiteralAlphabet, MaxLenLiteral)
NextLiteral == Analyze(LiteralInputs, 1) \/ Scan \/ Finish
SpecLiteral == Init /\ [][NextLiteral]_vars

\* Identifiers and reserved words: reserved words in every mix of upper and
\* lower case, runs of identifier characters up to past the length limit
\* (alone, and placed as in "val <name> ="), and all short words.
CaseVariants(word) ==
  {[i \in 1..Len(word) |->
      IF upper[i]
      THEN UpperSeq[CHOOSE k \in 1..26 : LowerSeq[k] = word[i]]
      ELSE word[i]] : upper \in [1..Len(word) -> BOOLEAN]}
SampleWords ==
  {<<"v", "a", "l">>, <<"i", "f">>, <<"c", "l", "a", "s", "s">>,
   <<"t", "r", "u", "e">>, <<"f", "a", "l", "s", "e">>, <<"n", "u", "l", "l">>}
IdentifierRuns == {[i \in 1..n |-> "x"] : n \in 1..MaxIdentifierRun}
IdentifierAlphabet == {"x", "X", "_", "1", " "}
IdentifierInputs ==
  UNION {CaseVariants(word) : word \in SampleWords}
    \cup IdentifierRuns
    \cup {<<"v", "a", "l", " ">> \o run \o <<" ", "=">> : run \in IdentifierRuns}
    \cup StringsUpTo(IdentifierAlphabet, MaxLen)
NextIdentifier == Analyze(IdentifierInputs, 1) \/ Scan \/ Finish
SpecIdentifier == Init /\ [][NextIdentifier]_vars

\* Lines and columns: both line breaks, the comment delimiters and a word
\* character, and a raw string and a block comment that hold a line break.
LinesAlphabet == {"\n", "\r", "/", "*", "a"}
LinesExamples ==
  {<<"/", "*", "\n", "*", "/", "a">>,
   <<"\"", "\"", "\"", "\n", "\"", "\"", "\"", "a">>}
LinesInputs == StringsUpTo(LinesAlphabet, MaxLenLines) \cup LinesExamples
NextLines == Analyze(LinesInputs, 1) \/ Scan \/ Finish
SpecLines == Init /\ [][NextLines]_vars

\* Dots and colons: the two characters, a digit, a letter and the "?" of
\* the operators "?." and "?:".
DotAlphabet == {".", ":", "?", "3", "a"}
DotInputs == StringsUpTo(DotAlphabet, MaxLenDot)
NextDot == Analyze(DotInputs, 1) \/ Scan \/ Finish
SpecDot == Init /\ [][NextDot]_vars

\* Statistics: the bitwise and two other operators, a letter, a digit and a
\* line break.
StatisticsAlphabet == {"&", "|", "^", "+", "=", "a", "3", "\n"}
StatisticsInputs == StringsUpTo(StatisticsAlphabet, MaxLenStatistics)
NextStatistics == Analyze(StatisticsInputs, 1) \/ Scan \/ Finish
SpecStatistics == Init /\ [][NextStatistics]_vars

\* Raw strings: quotes, a letter and a line break.
RawAlphabet == {"\"", "a", "\n"}
RawInputs == StringsUpTo(RawAlphabet, MaxLenRaw)
NextRaw == Analyze(RawInputs, 1) \/ Scan \/ Finish
SpecRaw == Init /\ [][NextRaw]_vars

\* ------------------------------------------------------------------ claims

\* The types of a token list, in order.
TypesOf(list) == [i \in DOMAIN list |-> list[i].type]

\* The characters the scan loop elides without a token or a diagnostic.
ElidedChars == {" ", "\t", "\r", "\n"}

\* C1: every iteration of the scan loop, taken while the offset is below
\* the input length, moves the offset forward by at least one character and
\* never past the end of the input; so the loop ends after at most
\* Len(input) iterations, whatever token, elision or diagnostic it produced.
C1_ScanProgress ==
  [][(pc = "scan" /\ pc' = "scan")
       => /\ position < Len(input)
          /\ position' >= position + 1
          /\ position' <= Len(input)
          /\ Len(spans') = Len(spans) + 1
          /\ Len(spans') <= Len(input)]_vars

\* A call that went through a token, an elided character and a diagnostic.
C1_Witness ==
  /\ pc = "done"
  /\ \E i, j, k \in DOMAIN spans :
       /\ spans[i].kind = "token"
       /\ spans[j].kind = "elided"
       /\ spans[k].kind = "error"

\* C2: the iterations of a call consume contiguous, non-empty ranges of
\* offsets starting at 0; each range is the lexeme of exactly one token, the
\* characters skipped for exactly one diagnostic, or an elided run of
\* whitespace or line-break characters; when analyze returns the ranges cover
\* the whole input and the sentinel's offset is the input length.
C2_Coverage ==
  /\ \A i \in DOMAIN spans :
       /\ spans[i].from = (IF i = 1 THEN 0 ELSE spans[i - 1].to)
       /\ spans[i].from < spans[i].to
       /\ spans[i].to <= Len(input)
       /\ spans[i].kind \in {"token", "error", "elided"}
       /\ spans[i].kind = "token" =>
            /\ spans[i].index \in DOMAIN tokens
            /\ tokens[spans[i].index].type # "EOF"
            /\ tokens[spans[i].index].position = spans[i].from
            /\ tokens[spans[i].index].length = spans[i].to - spans[i].from
            /\ tokens[spans[i].index].lexeme
                 = Substring(input, spans[i].from, spans[i].to)
       /\ spans[i].kind = "error" => spans[i].index \in DOMAIN errors
       /\ spans[i].kind = "elided" =>
            \A k \in spans[i].from .. (spans[i].to - 1) :
              input[k + 1] \in ElidedChars
  /\ \A i, j \in DOMAIN spans :
       (i # j /\ spans[i].kind = spans[j].kind /\ spans[i].kind # "elided")
         => spans[i].index # spans[j].index
  /\ Cardinality({i \in DOMAIN spans : spans[i].kind = "error"}) = Len(errors)
  /\ Cardinality({i \in DOMAIN spans : spans[i].kind = "token"})
       = Len(tokens) - (IF pc = "done" THEN 1 ELSE 0)
  /\ position = (IF spans = <<>> THEN 0 ELSE spans[Len(spans)].to)
  /\ pc = "done" =>
       /\ position = Len(input)
       /\ tokens[Len(tokens)].position = Len(input)

\* A finished call on a three-character input consumed as a token, an elided
\* character and a diagnostic's skip.
C2_Witness ==
  /\ pc = "done"
  /\ Len(input) = 3
  /\ Len(spans) = 3
  /\ {spans[i].kind : i \in DOMAIN spans} = {"token", "error", "elided"}

\* C3: the token list analyze returns ends with an EOF token of length 0 and
\* empty lexeme placed at the last line, column and offset reached; it holds
\* no other EOF token, and no EOF token is in the list before analyze
\* returns; this holds for the empty input and for inputs with diagnostics.
C3_EofSentinel ==
  /\ pc = "done" =>
       /\ Len(tokens) >= 1
       /\ tokens[Len(tokens)].type = "EOF"
       /\ tokens[Len(tokens)].length = 0
       /\ tokens[Len(tokens)].lexeme = <<>>
       /\ tokens[Len(tokens)].line = line
       /\ tokens[Len(tokens)].column = column
       /\ tokens[Len(tokens)].position = position
       /\ Cardinality({i \in DOMAIN tokens : tokens[i].type = "EOF"}) = 1
  /\ pc # "done" => \A i \in DOMAIN tokens : tokens[i].type # "EOF"

\* The result for an input with a diagnostic and a token before the sentinel.
C3_Witness ==
  /\ pc = "done"
  /\ errors # <<>>
  /\ Len(tokens) = 2
  /\ tokens[2].type = "EOF"

\* C4: in the token list, each token starts after the previous one and at
\* or after the previous one's end, and no token has the type WHITESPACE or
\* NEWLINE.
C4_TokensOrdered ==
  /\ \A i \in DOMAIN tokens :
       i > 1 =>
         /\ tokens[i - 1].position < tokens[i].position
         /\ tokens[i - 1].position + tokens[i - 1].length <= tokens[i].position
  /\ \A i \in DOMAIN tokens : tokens[i].type \notin {"WHITESPACE", "NEWLINE"}

\* A token of more than one character followed directly by another token.
C4_Witness ==
  /\ pc = "done"
  /\ \E i \in DOMAIN tokens :
       /\ i > 1
       /\ tokens[i - 1].length > 1
       /\ tokens[i - 1].position + tokens[i - 1].length = tokens[i].position
       /\ tokens[i].type # "EOF"

\* C5: what a call of analyze returns depends only on its input, not on the
\* calls made before it on the same service: the tokens and diagnostics are
\* those a service with freshly constructed automata returns for the input
\* (so analysing one input twice gives the same result).
C5_ResultDependsOnInputOnly ==
  pc = "done" =>
    [tokens |-> tokens, errors |-> errors] = analyze(InitialAutomata, input)

\* A second call that accepted a string although the call before it left
\* the string automaton in its rejecting state.
C5_Witness ==
  /\ pc = "done"
  /\ runs = 2
  /\ entry.string = "REJECT"
  /\ \E i \in DOMAIN tokens : tokens[i].type = "STRING"

\* The token types of the operator table.
OperatorTypes == {entry_[2] : entry_ \in OPERATORS}

\* C6: every operator token is the longest entry of the operator table (at
\* most 3 characters) that is a prefix of the input at the token's offset:
\* no longer prefix of the remaining input is in the table; "===" gives the
\* single token IDENTITY_EQUALS, not EQUALS followed by ASSIGN.
C6_OperatorLongestMatch ==
  /\ \A i \in DOMAIN tokens :
       tokens[i].type \in OperatorTypes =>
         /\ <<tokens[i].lexeme, tokens[i].type>> \in OPERATORS
         /\ tokens[i].length <= 3
         /\ tokens[i].lexeme
              = Substring(input, tokens[i].position,
                          tokens[i].position + tokens[i].length)
         /\ \A n \in (tokens[i].length + 1) .. 3 :
              tokens[i].position + n <= Len(input) =>
                ~MapHas(OPERATORS,
                        Substring(input, tokens[i].position,
                                  tokens[i].position + n))
  /\ (pc = "done" /\ input = <<"=", "=", "=">>) =>
       TypesOf(tokens) = <<"IDENTITY_EQUALS", "EOF">>

\* "===" analysed to the end as one three-character operator token.
C6_Witness ==
  /\ pc = "done"
  /\ input = <<"=", "=", "=">>
  /\ tokens[1].type = "IDENTITY_EQUALS"
  /\ tokens[1].length = 3

\* The offset at which the run of digits starting at offset p ends.
DigitRunEnd(text, p) ==
  CHOOSE e \in p .. Len(text) :
    /\ \A k \in p .. (e - 1) : isDigit(text[k + 1])
    /\ e = Len(text) \/ ~isDigit(text[e + 1])

\* C7: an iteration that starts at a digit produces a number token.  The
\* "." after the digits is part of it only when a digit follows the ".":
\* then the token is a DECIMAL that ends after the digits of the fraction;
\* otherwise it is an INTEGER that ends before the "." ("3..5" is INTEGER
\* RANGE INTEGER, "3.a" is INTEGER followed by a token starting at the ".").
C7_NumberDot ==
  /\ \A i \in DOMAIN spans :
       isDigit(input[spans[i].from + 1]) =>
         /\ spans[i].kind = "token"
         /\ IF /\ DigitRunEnd(input, spans[i].from) + 1 < Len(input)
               /\ input[DigitRunEnd(input, spans[i].from) + 1] = "."
               /\ isDigit(input[DigitRunEnd(input, spans[i].from) + 2])
            THEN /\ tokens[spans[i].index].type = "DECIMAL"
                 /\ spans[i].to
                      = DigitRunEnd(input,
                                    DigitRunEnd(input, spans[i].from) + 1)
            ELSE /\ tokens[spans[i].index].type = "INTEGER"
                 /\ spans[i].to = DigitRunEnd(input, spans[i].from)
  /\ \A i \in DOMAIN tokens :
       tokens[i].type \in {"INTEGER", "DECIMAL"} =>
         isDigit(input[tokens[i].position + 1])
  /\ (pc = "done" /\ input = <<"3", ".", "1", "4">>) =>
       /\ TypesOf(tokens) = <<"DECIMAL", "EOF">>
       /\ tokens[1].lexeme = input
  /\ (pc = "done" /\ input = <<"3", ".", ".", "5">>) =>
       TypesOf(tokens) = <<"INTEGER", "RANGE", "INTEGER", "EOF">>
  /\ (pc = "done" /\ input = <<"3", ".", "a">>) =>
       /\ tokens[1].type = "INTEGER"
       /\ tokens[1].length = 1
       /\ tokens[2].position = 1

\* "3..5" analysed to the end: the first "." was not taken into the number.
C7_Witness ==
  /\ pc = "done"
  /\ input = <<"3", ".", ".", "5">>
  /\ tokens[1].type = "INTEGER"
  /\ tokens[2].type = "RANGE"

\* The offset of the first line break at or after offset p, or the length of
\* the text.
LineEnd(text, p) ==
  CHOOSE e \in p .. Len(text) :
    /\ \A k \in p .. (e - 1) : text[k + 1] \notin {"\n", "\r"}
    /\ e = Len(text) \/ text[e + 1] \in {"\n", "\r"}

\* A quote at offset p that does not start a triple quote and has no further
\* quote before the end of its line.
OpensUnclosedString(text, p) ==
  /\ text[p + 1] = "\""
  /\ ~(p + 2 < Len(text) /\ text[p + 2] = "\"" /\ text[p + 3] = "\"")
  /\ \A k \in (p + 1) .. (LineEnd(text, p) - 1) : text[k + 1] # "\""

\* C8: when the scanner is at a quote that does not start a triple quote and
\* has no closing quote before the end of its line or of the input, it emits
\* one UNCLOSED_STRING diagnostic with the line and column of that quote and
\* no token, and everything it produces afterwards starts on a later line.
C8_UnclosedString ==
  \A i \in DOMAIN spans :
    OpensUnclosedString(input, spans[i].from) =>
      /\ spans[i].kind = "error"
      /\ errors[spans[i].index].type = "UNCLOSED_STRING"
      /\ errors[spans[i].index].line = spans[i].line
      /\ errors[spans[i].index].column = spans[i].column
      /\ Cardinality({e \in DOMAIN errors :
                        /\ errors[e].type = "UNCLOSED_STRING"
                        /\ errors[e].line = spans[i].line
                        /\ errors[e].column = spans[i].column}) = 1
      /\ \A j \in DOMAIN spans :
           (j > i /\ spans[j].kind # "elided") => spans[j].line > spans[i].line

\* A block comment opener, respectively closer, starts at offset k of text.
IsOpen(text, k) == k + 1 < Len(text) /\ text[k + 1] = "/" /\ text[k + 2] = "*"
IsClose(text, k) == k + 1 < Len(text) /\ text[k + 1] = "*" /\ text[k + 2] = "/"

\* A plain block comment opens at offset p: "/*" not followed by "*".
OpensPlainBlock(text, p) ==
  IsOpen(text, p) /\ ~(p + 2 < Len(text) /\ text[p + 3] = "*")

\* The nesting depth of the comment opened at offset p once the delimiters
\* starting at the offsets up to k are counted.
Depth(text, p, k) ==
  1 + Cardinality({j \in (p + 2) .. k : IsOpen(text, j)})
    - Cardinality({j \in (p + 2) .. k : IsClose(text, j)})

\* The offsets of the closers at which the depth of the comment opened at p
\* is zero; the comment ends at the first of them.
ZeroDepthAt(text, p) ==
  {k \in (p + 2) .. (Len(text) - 2) : IsClose(text, k) /\ Depth(text, p, k) = 0}

\* No two delimiters share a character between offset p + 2 and offset e, so
\* that the openers and closers of the comment are read in one way only.
DelimitersApart(text, p, e) ==
  \A k \in (p + 2) .. (e - 1) :
    ~((IsOpen(text, k) \/ IsClose(text, k))
       /\ (IsOpen(text, k + 1) \/ IsClose(text, k + 1)))

\* C9: when the scanner is at a plain "/*" whose nesting depth never returns
\* to zero before the end of the input, it emits exactly one
\* UNCLOSED_BLOCK_COMMENT diagnostic for that opener, also when a "*/" occurs
\* later in the input; "/* a /* b */ c" gives exactly one such diagnostic.
C9_UnclosedNestedComment ==
  /\ \A i \in DOMAIN spans :
       (/\ OpensPlainBlock(input, spans[i].from)
        /\ ZeroDepthAt(input, spans[i].from) = {}
        /\ DelimitersApart(input, spans[i].from, Len(input)))
         => /\ spans[i].kind = "error"
            /\ errors[spans[i].index].type = "UNCLOSED_BLOCK_COMMENT"
            /\ Cardinality({e \in DOMAIN errors :
                              /\ errors[e].type = "UNCLOSED_BLOCK_COMMENT"
                              /\ errors[e].line = spans[i].line
                              /\ errors[e].column = spans[i].column}) = 1
  /\ (pc = "done"
      /\ input = <<"/", "*", " ", "a", " ", "/", "*", " ", "b", " ", "*", "/",
                   " ", "c">>)
       => Cardinality({e \in DOMAIN errors :
                         errors[e].type = "UNCLOSED_BLOCK_COMMENT"}) = 1

\* The least element of a non-empty set of numbers.
Least(set) == CHOOSE x \in set : \A y \in set : x <= y

OpenerTypes == {"LPAREN", "LBRACE", "LBRACKET"}
CloserTypes == {"RPAREN", "RBRACE", "RBRACKET"}
CloserOf(type) ==
  CASE type = "LPAREN" -> "RPAREN"
    [] type = "LBRACE" -> "RBRACE"
    [] type = "LBRACKET" -> "RBRACKET"

\* The openers still pending after the first n tokens of list, as indices
\* into list, the most recently opened last: an opener is pushed, a closer
\* pops the top (whatever its kind) unless nothing is pending.
RECURSIVE PendingAfter(_, _)
PendingAfter(list, n) ==
  IF n = 0 THEN <<>>
  ELSE IF list[n].type \in OpenerTypes THEN Append(PendingAfter(list, n - 1), n)
  ELSE IF list[n].type \in CloserTypes /\ PendingAfter(list, n - 1) # <<>>
  THEN SubSeq(PendingAfter(list, n - 1), 1, Len(PendingAfter(list, n - 1)) - 1)
  ELSE PendingAfter(list, n - 1)

\* The diagnostics located at a line and column.
ErrorsAt(l, c) ==
  {e \in DOMAIN errors : errors[e].line = l /\ errors[e].column = c}

\* C11: a closing bracket accepted while the most recently opened pending
\* bracket is of another kind gets exactly one diagnostic, and that opener
\* is popped; "(a, [b)" gives one diagnostic for the ")" and, at the end of
\* the input, one for the outer "(": two diagnostics in all.
C11_MismatchedCloser ==
  /\ \A n \in DOMAIN tokens :
       (/\ tokens[n].type \in CloserTypes
        /\ PendingAfter(tokens, n - 1) # <<>>
        /\ CloserOf(tokens[PendingAfter(tokens, n - 1)
                             [Len(PendingAfter(tokens, n - 1))]].type)
             # tokens[n].type)
         => Cardinality(ErrorsAt(tokens[n].line, tokens[n].column)) = 1
  /\ (pc = "done" /\ input = <<"(", "a", ",", " ", "[", "b", ")">>)
       => Len(errors) = 2

\* C12: when analyze returns, every opening bracket still pending has
\* exactly one diagnostic, and these diagnostics close the list in the order
\* most recently opened first; brackets that are all nested and closed give
\* no diagnostic.
C12_UnclosedOpeners ==
  pc = "done" =>
    /\ Len(errors) >= Len(PendingAfter(tokens, Len(tokens)))
    /\ \A k \in 1 .. Len(PendingAfter(tokens, Len(tokens))) :
         /\ errors[Len(errors) - Len(PendingAfter(tokens, Len(tokens))) + k].line
              = tokens[PendingAfter(tokens, Len(tokens))
                         [Len(PendingAfter(tokens, Len(tokens))) + 1 - k]].line
         /\ errors[Len(errors) - Len(PendingAfter(tokens, Len(tokens))) + k].column
              = tokens[PendingAfter(tokens, Len(tokens))
                         [Len(PendingAfter(tokens, Len(tokens))) + 1 - k]].column
    /\ (/\ PendingAfter(tokens, Len(tokens)) = <<>>
        /\ \A n \in DOMAIN tokens :
             tokens[n].type \in CloserTypes =>
               /\ PendingAfter(tokens, n - 1) # <<>>
               /\ CloserOf(tokens[PendingAfter(tokens, n - 1)
                                    [Len(PendingAfter(tokens, n - 1))]].type)
                    = tokens[n].type)
         => errors = <<>>

\* C13: a closing bracket accepted while no opening bracket is pending gets
\* exactly one diagnostic, and no opener is pending after it either.
C13_CloserWithoutOpener ==
  \A n \in DOMAIN tokens :
    (tokens[n].type \in CloserTypes /\ PendingAfter(tokens, n - 1) = <<>>)
      => /\ Cardinality(ErrorsAt(tokens[n].line, tokens[n].column)) = 1
         /\ PendingAfter(tokens, n) = <<>>

\* The escape codes of the documentation: n t r b f \ " ' $ 0.
EscapeTable == {"n", "t", "r", "b", "f", "\\", "\"", "'", "$", "0"}

\* What is wrong with the literal opened by quote at offset p of text, read
\* from offset k on: "escape" when a backslash is followed by a character
\* outside the escape table before a closing quote, otherwise "codepoint"
\* when an invalid codepoint was met (seen), otherwise "unclosed" when the
\* line or the text ends before a closing quote, otherwise "none".
RECURSIVE LiteralFault(_, _, _, _)
LiteralFault(text, quote, k, seen) ==
  IF k >= Len(text) \/ text[k + 1] \in {"\n", "\r"}
  THEN IF seen THEN "codepoint" ELSE "unclosed"
  ELSE IF text[k + 1] = "\\"
  THEN IF k + 1 < Len(text) /\ text[k + 2] \notin EscapeTable
       THEN "escape"
       ELSE LiteralFault(text, quote, k + 2, seen)
  ELSE IF text[k + 1] = quote
  THEN IF seen THEN "codepoint" ELSE "none"
  ELSE LiteralFault(text, quote, k + 1, seen \/ ~isValidUnicodeChar(text[k + 1]))

\* The diagnostic kind the priority assigns to a fault.
FaultKind(fault) ==
  CASE fault = "escape" -> "INVALID_ESCAPE_SEQUENCE"
    [] fault = "codepoint" -> "INVALID_UNICODE_CHAR"
    [] fault = "unclosed" -> "UNCLOSED_STRING"

\* Offset p of text opens a char literal or a normal string.
OpensLiteral(text, p) ==
  \/ text[p + 1] = "'"
  \/ /\ text[p + 1] = "\""
     /\ ~(p + 2 < Len(text) /\ text[p + 2] = "\"" /\ text[p + 3] = "\"")

\* C14: a char or string literal that is malformed gets exactly one
\* diagnostic, of the kind the priority gives: invalid escape sequence when
\* an invalid escape comes before a closing quote, otherwise invalid
\* codepoint when the span holds one, otherwise unclosed string; a string
\* holding \v is reported as an invalid escape sequence.
C14_DiagnosticPriority ==
  \A i \in DOMAIN spans :
    (/\ OpensLiteral(input, spans[i].from)
     /\ LiteralFault(input, input[spans[i].from + 1], spans[i].from + 1, FALSE)
          # "none")
      => /\ spans[i].kind = "error"
         /\ Cardinality(ErrorsAt(spans[i].line, spans[i].column)) = 1
         /\ errors[spans[i].index].type
              = FaultKind(LiteralFault(input, input[spans[i].from + 1],
                                       spans[i].from + 1, FALSE))

\* A backslash at index k or later of lexeme, not itself escaped, is followed
\* by a character outside the escape table.
RECURSIVE HasInvalidEscape(_, _)
HasInvalidEscape(lexeme, k) ==
  IF k >= Len(lexeme) THEN FALSE
  ELSE IF lexeme[k] = "\\"
  THEN lexeme[k + 1] \notin EscapeTable \/ HasInvalidEscape(lexeme, k + 2)
  ELSE HasInvalidEscape(lexeme, k + 1)

\* C15: no CHAR, STRING or STRING_TEMPLATE token has a lexeme in which a
\* backslash is followed by a character outside the escape table.
C15_InvalidEscapeRejected ==
  \A i \in DOMAIN tokens :
    tokens[i].type \in {"CHAR", "STRING", "STRING_TEMPLATE"}
      => ~HasInvalidEscape(tokens[i].lexeme, 2)

\* C16: every CHAR token is a quote, one plain character or one backslash
\* escape, and a quote, and its decoded value has exactly one character; so
\* '' and 'ab' give no CHAR token.
C16_CharSingleUnit ==
  \A i \in DOMAIN tokens :
    tokens[i].type = "CHAR"
      => /\ Len(tokens[i].value) = 1
         /\ \/ /\ tokens[i].length = 3
               /\ tokens[i].lexeme[2] \notin {"'", "\\"}
            \/ /\ tokens[i].length = 4
               /\ tokens[i].lexeme[2] = "\\"

\* The token types the identifier automaton gives to a word.
WordTypes == {"IDENTIFIER", "KEYWORD", "BOOLEAN", "NULL"}

\* C17: a word is classified as a reserved word only if it is, character
\* for character, a member of the reserved-word set; a word that differs
\* from a reserved word in letter case only (Val, IF, Class) is IDENTIFIER.
C17_KeywordCaseSensitive ==
  \A i \in DOMAIN tokens :
    tokens[i].type \in WordTypes
      => (tokens[i].type = "IDENTIFIER" <=> tokens[i].lexeme \notin KEYWORDS)

\* C18: the words true and false are tokens of type BOOLEAN and the word
\* null is a token of type NULL, never of type KEYWORD.
C18_BooleanAndNullKinds ==
  \A i \in DOMAIN tokens :
    /\ tokens[i].lexeme \in {<<"t", "r", "u", "e">>, <<"f", "a", "l", "s", "e">>}
         => tokens[i].type = "BOOLEAN"
    /\ tokens[i].lexeme = <<"n", "u", "l", "l">> => tokens[i].type = "NULL"

\* The number of identifier characters from offset p of text on.
IdentifierRunLength(text, p) ==
  (CHOOSE e \in p .. Len(text) :
     /\ \A k \in p .. (e - 1) : isIdentifierPart(text[k + 1])
     /\ e = Len(text) \/ ~isIdentifierPart(text[e + 1])) - p

\* C19: an identifier of more than 15 characters gets one diagnostic of type
\* IDENTIFIER_TOO_LONG at the line and column where the identifier starts.
C19_IdentifierTooLong ==
  \A i \in DOMAIN spans :
    (/\ isIdentifierStart(input[spans[i].from + 1])
     /\ spans[i].from = 0 \/ ~isIdentifierPart(input[spans[i].from])
     /\ IdentifierRunLength(input, spans[i].from) > MAX_IDENTIFIER_LENGTH)
      => /\ spans[i].kind = "error"
         /\ errors[spans[i].index].type = "IDENTIFIER_TOO_LONG"
         /\ errors[spans[i].index].line = spans[i].line
         /\ errors[spans[i].index].column = spans[i].column
         /\ Cardinality({e \in DOMAIN errors :
                           errors[e].type = "IDENTIFIER_TOO_LONG"}) = 1

\* The token type of each special operator that has one of its own.
SpecialOperatorKinds ==
  {<<<<"?", ".">>, "SAFE_CALL">>, <<<<"!", "!">>, "NOT_NULL_ASSERTION">>,
   <<<<"?", ":">>, "ELVIS">>, <<<<":", ":">>, "DOUBLE_COLON">>,
   <<<<".", ".">>, "RANGE">>, <<<<"-", ">">>, "ARROW">>,
   <<<<"i", "n">>, "IN">>, <<<<"!", "i", "n">>, "NOT_IN">>,
   <<<<"i", "s">>, "IS">>, <<<<"!", "i", "s">>, "NOT_IS">>,
   <<<<"a", "s">>, "AS">>, <<<<"a", "s", "?">>, "SAFE_CAST">>}

\* C20: each special operator, as the whole input, gives exactly one token
\* before the sentinel, whose lexeme is the operator and whose type is the
\* operator's own (not a word type), and no diagnostic.
C20_SpecialOperators ==
  (pc = "done" /\ input \in SpecialOperators)
    => /\ Len(tokens) = 2
       /\ tokens[1].lexeme = input
       /\ tokens[1].type \notin WordTypes
       /\ MapHas(SpecialOperatorKinds, input)
            => tokens[1].type = MapGet(SpecialOperatorKinds, input)
       /\ errors = <<>>

\* C21: in the result analyze returns, success is true if and only if the
\* list of diagnostics is empty.
C21_SuccessIffNoErrors ==
  pc = "done" => (result.returned /\ (result.success <=> errors = <<>>))

\* A returned result with a diagnostic and success false.
C21_Witness ==
  /\ pc = "done"
  /\ errors # <<>>
  /\ result.success = FALSE

\* The number of line breaks of text before offset p: each "\n" and each
\* "\r" that is not followed by "\n".
LineBreaksBefore(text, p) ==
  Cardinality({k \in 0 .. (p - 1) :
                 \/ text[k + 1] = "\n"
                 \/ /\ text[k + 1] = "\r"
                    /\ ~(k + 1 < Len(text) /\ text[k + 2] = "\n")})

\* The offset at which the line holding offset p starts.
LineStart(text, p) ==
  CHOOSE b \in 0 .. p :
    /\ b = 0 \/ text[b] \in {"\n", "\r"}
    /\ \A k \in b .. (p - 1) : text[k + 1] \notin {"\n", "\r"}

\* C22: the line of every token and diagnostic is 1 plus the number of line
\* breaks before its offset, and its column is 1 plus the number of
\* characters between the start of its line and its offset, also after
\* tokens whose lexeme holds line breaks; the sentinel included.
C22_LineAndColumn ==
  /\ \A i \in DOMAIN spans :
       spans[i].kind # "elided" =>
         /\ spans[i].line = 1 + LineBreaksBefore(input, spans[i].from)
         /\ spans[i].column
              = 1 + spans[i].from - LineStart(input, spans[i].from)
         /\ spans[i].kind = "token" =>
              /\ tokens[spans[i].index].line = spans[i].line
              /\ tokens[spans[i].index].column = spans[i].column
         /\ spans[i].kind = "error" =>
              /\ errors[spans[i].index].line = spans[i].line
              /\ errors[spans[i].index].column = spans[i].column
  /\ pc = "done" =>
       /\ tokens[Len(tokens)].line = 1 + LineBreaksBefore(input, Len(input))
       /\ tokens[Len(tokens)].column
            = 1 + Len(input) - LineStart(input, Len(input))

\* The text is one word: an identifier-start character followed by at most
\* 14 identifier-part characters.
IsWord(text) ==
  /\ Len(text) \in 1 .. MAX_IDENTIFIER_LENGTH
  /\ isIdentifierStart(text[1])
  /\ \A k \in DOMAIN text : isIdentifierPart(text[k])

\* C23: an input that is exactly one word of at most 15 characters gives
\* exactly one token before the sentinel, and its lexeme is the whole word;
\* no other recognizer takes a prefix of the word (as in words that begin
\* with "as").
C23_WordIsOneToken ==
  (pc = "done" /\ IsWord(input))
    => /\ Len(tokens) = 2
       /\ tokens[1].lexeme = input

\* C24: every IDENTIFIER or KEYWORD token has a lexeme of at most 15
\* characters that starts with a letter or "_" and holds only letters,
\* digits and "_", and the lexeme is the input at the token's offset.
C24_IdentifierShape ==
  \A i \in DOMAIN tokens :
    tokens[i].type \in {"IDENTIFIER", "KEYWORD"}
      => /\ tokens[i].length \in 1 .. MAX_IDENTIFIER_LENGTH
         /\ Len(tokens[i].lexeme) = tokens[i].length
         /\ isIdentifierStart(tokens[i].lexeme[1])
         /\ \A k \in DOMAIN tokens[i].lexeme :
              isIdentifierPart(tokens[i].lexeme[k])
         /\ tokens[i].lexeme
              = Substring(input, tokens[i].position,
                          tokens[i].position + tokens[i].length)

\* An identifier token of exactly 15 characters returned for an input whose
\* run of identifier characters is longer than 15.
C24_Witness ==
  /\ pc = "done"
  /\ Len(input) > MAX_IDENTIFIER_LENGTH
  /\ \E i \in DOMAIN tokens :
       /\ tokens[i].type = "IDENTIFIER"
       /\ tokens[i].length = MAX_IDENTIFIER_LENGTH

\* C25: a maximal run of identifier characters that starts with an
\* identifier-start character and is longer than 15 gives no token from any
\* part of the run; each iteration inside the run is a diagnostic of type
\* UNRECOGNIZED_TOKEN that consumes one character.
C25_LongRunOnlyUnrecognized ==
  \A i, j \in DOMAIN spans :
    (/\ isIdentifierStart(input[spans[i].from + 1])
     /\ spans[i].from = 0 \/ ~isIdentifierPart(input[spans[i].from])
     /\ IdentifierRunLength(input, spans[i].from) > MAX_IDENTIFIER_LENGTH
     /\ spans[j].from >= spans[i].from
     /\ spans[j].from < spans[i].from + IdentifierRunLength(input, spans[i].from))
      => /\ spans[j].kind = "error"
         /\ errors[spans[j].index].type = "UNRECOGNIZED_TOKEN"
         /\ spans[j].to = spans[j].from + 1

\* C26: when the scanner is at a "/" followed by "/" or "*", it produces
\* there a LINE_COMMENT, BLOCK_COMMENT or DOC_COMMENT token or an
\* UNCLOSED_BLOCK_COMMENT diagnostic, never an operator token.
C26_CommentBeforeOperator ==
  \A i \in DOMAIN spans :
    (/\ input[spans[i].from + 1] = "/"
     /\ spans[i].from + 1 < Len(input)
     /\ input[spans[i].from + 2] \in {"/", "*"})
      => \/ /\ spans[i].kind = "token"
            /\ tokens[spans[i].index].type
                 \in {"LINE_COMMENT", "BLOCK_COMMENT", "DOC_COMMENT"}
         \/ /\ spans[i].kind = "error"
            /\ errors[spans[i].index].type = "UNCLOSED_BLOCK_COMMENT"

\* A documentation comment opens at offset p: the opener followed by "*"
\* and then not by "/".
OpensDoc(text, p) ==
  /\ IsOpen(text, p)
  /\ p + 2 < Len(text)
  /\ text[p + 3] = "*"
  /\ ~(p + 3 < Len(text) /\ text[p + 4] = "/")

\* C27: a documentation comment nests like a plain block comment: when the
\* scanner is at its opener and the depth returns to zero, it emits one
\* DOC_COMMENT token that ends at the closer bringing the depth to zero;
\* "/** a /* b */ c */" is one DOC_COMMENT token covering the whole input.
C27_NestedDocComment ==
  /\ \A i \in DOMAIN spans :
       (/\ OpensDoc(input, spans[i].from)
        /\ ZeroDepthAt(input, spans[i].from) # {}
        /\ DelimitersApart(input, spans[i].from,
                           Least(ZeroDepthAt(input, spans[i].from))))
         => /\ spans[i].kind = "token"
            /\ tokens[spans[i].index].type = "DOC_COMMENT"
            /\ spans[i].to = Least(ZeroDepthAt(input, spans[i].from)) + 2
  /\ (pc = "done" /\ input \in DocExamples)
       => /\ TypesOf(tokens) = <<"DOC_COMMENT", "EOF">>
          /\ tokens[1].lexeme = input

\* C28: no STRING or STRING_TEMPLATE token has a line break in its lexeme.
C28_NoLineBreakInString ==
  \A i \in DOMAIN tokens :
    tokens[i].type \in {"STRING", "STRING_TEMPLATE"}
      => \A k \in DOMAIN tokens[i].lexeme :
           tokens[i].lexeme[k] \notin {"\n", "\r"}

\* From index k of lexeme on, a "$" that is not escaped is directly followed
\* by "{" or by an identifier-start character.
RECURSIVE HasTemplateMarker(_, _)
HasTemplateMarker(lexeme, k) ==
  IF k >= Len(lexeme) THEN FALSE
  ELSE IF lexeme[k] = "\\" THEN HasTemplateMarker(lexeme, k + 2)
  ELSE IF lexeme[k] = "$"
  THEN \/ lexeme[k + 1] = "{"
       \/ isIdentifierStart(lexeme[k + 1])
       \/ HasTemplateMarker(lexeme, k + 1)
  ELSE HasTemplateMarker(lexeme, k + 1)

\* C29: an accepted normal string is a STRING_TEMPLATE token if and only if
\* its content holds an unescaped "$" directly followed by "{" or by an
\* identifier-start character; otherwise it is a STRING token.
C29_TemplateKind ==
  \A i \in DOMAIN tokens :
    tokens[i].type \in {"STRING", "STRING_TEMPLATE"}
      => (tokens[i].type = "STRING_TEMPLATE"
            <=> HasTemplateMarker(tokens[i].lexeme, 2))

\* Three quotes in a row start at offset p of text.
TripleQuoteAt(text, p) ==
  /\ p + 2 < Len(text)
  /\ text[p + 1] = "\""
  /\ text[p + 2] = "\""
  /\ text[p + 3] = "\""

\* The offsets after the opening quotes at p where three quotes start.
ClosingTriples(text, p) ==
  {k \in (p + 3)..Len(text) : TripleQuoteAt(text, k)}

\* C30: when the scanner is at three quotes, it emits a RAW_STRING token
\* that ends with the first three quotes in a row after the opening ones,
\* whose value is everything between, taken literally; when no three quotes
\* follow, it emits no RAW_STRING token there.
C30_RawString ==
  \A i \in DOMAIN spans :
    TripleQuoteAt(input, spans[i].from)
      => IF ClosingTriples(input, spans[i].from) # {}
         THEN LET close == Least(ClosingTriples(input, spans[i].from))
              IN /\ spans[i].kind = "token"
                 /\ spans[i].to = close + 3
                 /\ tokens[spans[i].index].type = "RAW_STRING"
                 /\ tokens[spans[i].index].lexeme
                      = Substring(input, spans[i].from, close + 3)
                 /\ tokens[spans[i].index].value
                      = Substring(input, spans[i].from + 3, close)
         ELSE ~(/\ spans[i].kind = "token"
                /\ tokens[spans[i].index].type = "RAW_STRING")

\* A RAW_STRING token whose value holds a quote and a line break.
C30_Witness ==
  /\ pc = "done"
  /\ \E i \in DOMAIN tokens :
       /\ tokens[i].type = "RAW_STRING"
       /\ \E k \in DOMAIN tokens[i].value : tokens[i].value[k] = "\""
       /\ \E k \in DOMAIN tokens[i].value : tokens[i].value[k] = "\n"

\* C31: when the scanner is at three quotes that no later three quotes
\* close, it emits a diagnostic of the kind UNCLOSED_RAW_STRING.
C31_UnclosedRawString ==
  \A i \in DOMAIN spans :
    (/\ TripleQuoteAt(input, spans[i].from)
     /\ ClosingTriples(input, spans[i].from) = {})
      => /\ spans[i].kind = "error"
         /\ errors[spans[i].index].type = "UNCLOSED_RAW_STRING"

\* C32: no CHAR, STRING or STRING_TEMPLATE token holds between its quotes a
\* character the validity predicate rejects.
C32_ValidCodepoints ==
  \A i \in DOMAIN tokens :
    tokens[i].type \in {"CHAR", "STRING", "STRING_TEMPLATE"}
      => \A k \in 2..(Len(tokens[i].lexeme) - 1) :
           isValidUnicodeChar(tokens[i].lexeme[k])

\* C33: when the scanner is at "//", it emits a LINE_COMMENT token whose
\* lexeme runs up to, and not including, the next line break or the end of
\* the input; the next iteration then skips that line break and starts a
\* new line.
C33_LineComment ==
  \A i \in DOMAIN spans :
    (/\ spans[i].from + 1 < Len(input)
     /\ input[spans[i].from + 1] = "/"
     /\ input[spans[i].from + 2] = "/")
      => /\ spans[i].kind = "token"
         /\ tokens[spans[i].index].type = "LINE_COMMENT"
         /\ spans[i].to = LineEnd(input, spans[i].from)
         /\ tokens[spans[i].index].lexeme
              = Substring(input, spans[i].from, LineEnd(input, spans[i].from))
         /\ (i + 1) \in DOMAIN spans
              => /\ spans[i + 1].kind = "elided"
                 /\ spans[i + 1].from = spans[i].to
                 /\ input[spans[i + 1].from + 1] \in {"\n", "\r"}
         /\ (i + 2) \in DOMAIN spans
              => /\ spans[i + 2].line = spans[i].line + 1
                 /\ spans[i + 2].column = 1

\* A line comment ended by a carriage return, with a token on the next line.
C33_Witness ==
  \E i \in DOMAIN spans :
    /\ input[spans[i].from + 1] = "/"
    /\ spans[i].kind = "token"
    /\ tokens[spans[i].index].type = "LINE_COMMENT"
    /\ Len(tokens[spans[i].index].lexeme) > 2
    /\ (i + 2) \in DOMAIN spans
    /\ input[spans[i + 1].from + 1] = "\r"
    /\ spans[i + 2].kind = "token"

\* The spans where an UNCLOSED_BLOCK_COMMENT diagnostic was emitted.
UnclosedCommentSpans ==
  {i \in DOMAIN spans :
     /\ spans[i].kind = "error"
     /\ errors[spans[i].index].type = "UNCLOSED_BLOCK_COMMENT"}

\* C34: once an UNCLOSED_BLOCK_COMMENT diagnostic is emitted, the rest of
\* the input is skipped: that iteration is the last one, it ends at the end
\* of the input, its diagnostic is the last one, and the only token after
\* it is the sentinel.
C34_UnclosedCommentSkipsRest ==
  \A i \in UnclosedCommentSpans :
    /\ i = Len(spans)
    /\ spans[i].to = Len(input)
    /\ position = Len(input)
    /\ spans[i].index = Len(errors)
    /\ Len(tokens) = Cardinality({j \in 1..(i - 1) : spans[j].kind = "token"})
                       + (IF pc = "done" THEN 1 ELSE 0)
    /\ pc = "done" => tokens[Len(tokens)].type = "EOF"

\* An analysis that returned after an unclosed block comment which follows
\* a token and is followed by more text.
C34_Witness ==
  /\ pc = "done"
  /\ \E i \in UnclosedCommentSpans :
       /\ spans[i].from > 0
       /\ spans[i].to > spans[i].from + 2
       /\ Len(tokens) >= 2

\* The characters of Alphabet that start no token and no specific diagnostic.
UnrecognizedChars == {"#"}

\* C35: when the scanner is at a character that starts no token and no
\* specific diagnostic, it emits exactly one UNRECOGNIZED_TOKEN diagnostic
\* whose lexeme is that character and whose line and column are the current
\* ones, and resumes at the next offset; every UNRECOGNIZED_TOKEN diagnostic
\* has that shape.
C35_UnrecognizedToken ==
  /\ \A i \in DOMAIN spans :
       input[spans[i].from + 1] \in UnrecognizedChars
         => /\ spans[i].kind = "error"
            /\ errors[spans[i].index].type = "UNRECOGNIZED_TOKEN"
            /\ Cardinality({e \in DOMAIN errors :
                              /\ errors[e].line = spans[i].line
                              /\ errors[e].column = spans[i].column}) = 1
  /\ \A i \in DOMAIN spans :
       (/\ spans[i].kind = "error"
        /\ errors[spans[i].index].type = "UNRECOGNIZED_TOKEN")
         => /\ errors[spans[i].index].lexeme = <<input[spans[i].from + 1]>>
            /\ errors[spans[i].index].line = spans[i].line
            /\ errors[spans[i].index].column = spans[i].column
            /\ spans[i].to = spans[i].from + 1
            /\ (i + 1) \in DOMAIN spans => spans[i + 1].from = spans[i].to

\* An analysis that reported an unrecognized character on the second line
\* and went on to a token.
C35_Witness ==
  /\ pc = "done"
  /\ \E i \in DOMAIN spans :
       /\ spans[i].kind = "error"
       /\ errors[spans[i].index].type = "UNRECOGNIZED_TOKEN"
       /\ spans[i].line = 2
       /\ (i + 1) \in DOMAIN spans
       /\ spans[i + 1].kind = "token"

\* The character at offset p of text is c and so is the next one.
DoubledAt(text, p, c) ==
  /\ p + 1 < Len(text)
  /\ text[p + 1] = c
  /\ text[p + 2] = c

\* C36: when the scanner is at ".." or "::", it emits one RANGE or
\* DOUBLE_COLON token of two characters; a DOT or COLON token is emitted
\* only where the character is not doubled.
C36_RangeAndDoubleColon ==
  \A i \in DOMAIN spans :
    /\ DoubledAt(input, spans[i].from, ".")
         => /\ spans[i].kind = "token"
            /\ tokens[spans[i].index].type = "RANGE"
            /\ spans[i].to = spans[i].from + 2
    /\ DoubledAt(input, spans[i].from, ":")
         => /\ spans[i].kind = "token"
            /\ tokens[spans[i].index].type = "DOUBLE_COLON"
            /\ spans[i].to = spans[i].from + 2
    /\ (spans[i].kind = "token" /\ tokens[spans[i].index].type = "DOT")
         => ~DoubledAt(input, spans[i].from, ".")
    /\ (spans[i].kind = "token" /\ tokens[spans[i].index].type = "COLON")
         => ~DoubledAt(input, spans[i].from, ":")

\* An analysis that returned a RANGE token directly followed by a DOT token,
\* and a COLON token.
C36_Witness ==
  /\ pc = "done"
  /\ \E i \in DOMAIN tokens :
       /\ tokens[i].type = "RANGE"
       /\ tokens[i + 1].type = "DOT"
       /\ tokens[i + 1].position = tokens[i].position + 2
  /\ \E i \in DOMAIN tokens : tokens[i].type = "COLON"

\* C37: every token other than the sentinel has a length of at least 1 that
\* is the length of its lexeme, its lexeme is the text of the input from its
\* offset over that length, and it ends within the input.
C37_TokenExtent ==
  \A i \in DOMAIN tokens :
    tokens[i].type # "EOF"
      => /\ tokens[i].length >= 1
         /\ tokens[i].length = Len(tokens[i].lexeme)
         /\ tokens[i].position + tokens[i].length <= Len(input)
         /\ tokens[i].lexeme
              = Substring(input, tokens[i].position,
                          tokens[i].position + tokens[i].length)

\* An analysis that returned a token of several characters that does not
\* start the input.
C37_Witness ==
  /\ pc = "done"
  /\ \E i \in DOMAIN tokens :
       /\ tokens[i].type # "EOF"
       /\ tokens[i].length >= 2
       /\ tokens[i].position > 0

\* The token kinds of the operator table.
OperatorTableKinds == {operatorEntry[2] : operatorEntry \in OPERATORS}

\* C38: the operatorCount of the statistics is the number of returned
\* tokens whose kind the operator table emits, BITWISE_AND, BITWISE_OR and
\* BITWISE_XOR included.
C38_OperatorCount ==
  pc = "done"
    => result.statistics.operatorCount
         = Cardinality({i \in DOMAIN tokens :
                          tokens[i].type \in OperatorTableKinds})

\* The sum of the counts of a histogram.
RECURSIVE SumOfCounts(_)
SumOfCounts(histogram) ==
  IF DOMAIN histogram = {} THEN 0
  ELSE LET typeName == CHOOSE t \in DOMAIN histogram : TRUE
       IN histogram[typeName]
            + SumOfCounts([t \in DOMAIN histogram \ {typeName} |-> histogram[t]])

\* C39: the totalTokens of the statistics is the number of returned tokens
\* without the sentinel, the histogram counts every returned token, the
\* sentinel included, and so its counts add up to totalTokens + 1.
C39_TotalTokens ==
  pc = "done"
    => /\ result.statistics.totalTokens
            = Cardinality({i \in DOMAIN tokens : tokens[i].type # "EOF"})
       /\ \A t \in {tokens[i].type : i \in DOMAIN tokens} :
            /\ t \in DOMAIN result.statistics.tokenDistribution
            /\ result.statistics.tokenDistribution[t]
                 = Cardinality({i \in DOMAIN tokens : tokens[i].type = t})
       /\ result.statistics.tokenDistribution["EOF"] = 1
       /\ SumOfCounts(result.statistics.tokenDistribution)
            = result.statistics.totalTokens + 1

\* An analysis that returned several tokens, two of them of one kind.
C39_Witness ==
  /\ pc = "done"
  /\ result.statistics.totalTokens >= 3
  /\ \E t \in DOMAIN result.statistics.tokenDistribution :
       result.statistics.tokenDistribution[t] >= 2

====
